---- MODULE Spec2Model ----
(***************************************************************************)
(* Movie Explorer Platform: the relational data-access layer               *)
(* (backend/app/models/models.py, backend/app/crud/crud.py,                *)
(* backend/app/crud/movie_crud.py) over the SQLite store configured in     *)
(* backend/app/core/database.py.                                           *)
(*                                                                         *)
(* A table is a function from the ids of its rows to the rows.  A nullable *)
(* value is a tuple: <<>> is NULL/None and <<v>> is the value v.  A string *)
(* is a tuple of one-character strings, so that lower() and LIKE are       *)
(* computed character by character.  A query result is the sequence of the *)
(* ids of the rows it returns, in rowid order (the scan order of SQLite    *)
(* when the statement has no ORDER BY).                                    *)
(***************************************************************************)
EXTENDS Integers, Sequences, FiniteSets, TLC

(***************************************************************************)
(* Bounds of the model.                                                    *)
(***************************************************************************)
\* rows per table: generated ids stay within 1..MaxId
MaxId == 2
\* repository calls in one behaviour
MaxOps == 4
\* requests in flight at once
MaxRequests == 2

None == <<>>

Some(v) == <<v>>

\* ids a caller may name for a row: each names a row in some states and no
\* row in others
InputIds == 1 .. MaxId

OptInputIds == {None} \cup {Some(i) : i \in InputIds}

\* Python truthiness of an Optional[int]: None and 0 are falsy
Truthy(opt) == opt # None /\ opt[1] # 0

RECURSIVE SetMax(_)
SetMax(S) ==
  IF S = {} THEN 0
  ELSE LET x == CHOOSE y \in S : TRUE
           r == SetMax(S \ {x})
       IN IF x > r THEN x ELSE r

RECURSIVE SortedSeq(_)
\* the elements of a set of integers in ascending order
SortedSeq(S) ==
  IF S = {} THEN <<>>
  ELSE LET m == SetMax(S) IN Append(SortedSeq(S \ {m}), m)

Range(s) == {s[i] : i \in 1 .. Len(s)}

\* an id allocator that fills the gaps deleted rows leave
NextId_lowest(table) == CHOOSE i \in 1 .. (SetMax(DOMAIN table) + 1) :
                          i \notin DOMAIN table /\ \A j \in 1 .. (i - 1) : j \in DOMAIN table

\* INTEGER PRIMARY KEY without AUTOINCREMENT: the rowid is max(rowid) + 1
NextId(table) == SetMax(DOMAIN table) + 1

\* a delete that is never committed: the row stays
Without_uncommitted(table, i) == table

\* the table with the row of id i removed
Without(table, i) == [j \in (DOMAIN table) \ {i} |-> table[j]]

\* the table with one more row
With(table, i, row) == [j \in (DOMAIN table) \cup {i} |-> IF j = i THEN row ELSE table[j]]

\* .offset(skip).limit(limit) on the rows of a query
\* (SQLite reads a negative OFFSET as 0 and a negative LIMIT as no limit)
Page(rows, skip, limit) ==
  LET first == IF skip < 0 THEN 0 ELSE skip
      end == IF limit < 0 \/ first + limit > Len(rows) THEN Len(rows) ELSE first + limit
  IN SubSeq(rows, first + 1, end)

VARIABLES
  movies,        \* table movies
  actors,        \* table actors
  directors,     \* table directors
  genres,        \* table genres
  reviews,       \* table reviews
  movie_genres,  \* association table: set of <<movie_id, genre_id>>
  movie_actors,  \* association table: set of <<movie_id, actor_id>>
  last,          \* the last repository call: what was called, with what, and its return
  ops,           \* number of repository calls made
  pc,            \* where each request is: "idle", "yielded", "exited", "done"
  exit,          \* the path on which each request left its handler ("none": not yet)
  session,       \* the session get_db made for each request (0: none yet)
  opened,        \* the sessions made and not closed
  pending        \* the create_movie or update_movie call that has resolved its ids
                 \* and not yet committed (None: no such call)

vars == <<movies, actors, directors, genres, reviews, movie_genres, movie_actors, last, ops,
          pc, exit, session, opened, pending>>

\* the state of the requests in flight
requests == <<pc, exit, session, opened>>

tables == <<movies, actors, directors, genres, reviews, movie_genres, movie_actors>>

(***************************************************************************)
(* Values the callers supply.                                              *)
(***************************************************************************)
\* two display strings: one in mixed case, one a single lower-case letter
NameAb == <<"A", "b">>

NameB == <<"b">>

Names == {NameAb, NameB}

OptText == {None, Some(NameB)}

\* schemas.GenreCreate
GenreCreate ==
  {[name |-> NameAb, description |-> Some(NameB)], [name |-> NameB, description |-> None]}

\* schemas.ActorCreate
ActorCreate ==
  { [name |-> NameAb, bio |-> Some(NameB), birth_date |-> None, photo_url |-> None,
     nationality |-> None],
    [name |-> NameB, bio |-> None, birth_date |-> None, photo_url |-> None,
     nationality |-> None] }

\* schemas.DirectorCreate
DirectorCreate ==
  [name : Names, bio : {None}, birth_date : {None}, photo_url : {None}, nationality : {None}]

\* schemas.ReviewCreate
ReviewCreate ==
  [movie_id : InputIds, reviewer_name : {NameB}, rating : {9}, comment : {Some(NameAb)}]

\* lists of ids a caller may send as genre_ids or actor_ids
IdLists == {<<>>, <<1>>, <<MaxId>>, <<1, MaxId>>}

\* a list that names one id twice
RepeatedIds == <<1, 1>>

\* the scalar part of schemas.MovieCreate
MovieScalars ==
  { [title |-> NameAb, release_year |-> 0, description |-> None, poster_url |-> None,
     rating |-> None, runtime_minutes |-> None],
    [title |-> NameB, release_year |-> 1, description |-> Some(NameAb), poster_url |-> None,
     rating |-> Some(9), runtime_minutes |-> Some(1)] }

\* Column(Float, default=0.0) of Movie.rating
RatingDefault == 0

\* the range of a movie rating that the create route documents: 0-10
RatingMin == 0

RatingMax == 10

\* a payload whose rating lies above the range
OverratedScalars ==
  [title |-> NameB, release_year |-> 1, description |-> None, poster_url |-> None,
   rating |-> Some(RatingMax + 5), runtime_minutes |-> None]

\* what a delete_movie removed besides the movie row; NoRows for other calls
NoRows == [reviews |-> {}, genres |-> {}, actors |-> {}]

\* the record of a repository call: id is the id addressed (or generated by
\* a create), ok is FALSE when the call returned None or False or raised
Called(op, kind, id, ok, arg, gone) ==
  [op |-> op, kind |-> kind, id |-> id, ok |-> ok, arg |-> arg, gone |-> gone]

(***************************************************************************)
(* The store's constraints and the ORM's relationship bookkeeping.         *)
(***************************************************************************)
\* a name column without unique=True: no commit is refused
UniqueViolation_off(table, self, name) == FALSE

\* Genre.name is unique=True: a commit that leaves another row with the
\* same name raises IntegrityError
UniqueViolation(table, self, name) ==
  \E g \in (DOMAIN table) \ {self} : table[g].name = name

\* Movie.genres: the Genre rows joined to the movie through movie_genres
GenresOf(m) == {g \in DOMAIN genres : <<m, g>> \in movie_genres}

\* Movie.actors
ActorsOf(m) == {a \in DOMAIN actors : <<m, a>> \in movie_actors}

\* a Genre.movies collection that a delete does not load
MoviesOfGenre_unloaded(g) == {}

\* Genre.movies
MoviesOfGenre(g) == {m \in DOMAIN movies : <<m, g>> \in movie_genres}

\* Actor.movies
MoviesOfActor(a) == {m \in DOMAIN movies : <<m, a>> \in movie_actors}

\* Director.movies
MoviesOfDirector(d) == {m \in DOMAIN movies : movies[m].director_id = Some(d)}

\* Movie.reviews
ReviewsOf(m) == {r \in DOMAIN reviews : reviews[r].movie_id = m}

\* no cascade on Movie.reviews: the reviews outlive the movie
CascadedReviews_none(m) == {}

\* cascade="all, delete-orphan" on Movie.reviews: the reviews deleted with
\* the movie
CascadedReviews(m) == ReviewsOf(m)

(***************************************************************************)
(* Lookups by primary key: <<>> when no row has the id, else <<row>>.      *)
(***************************************************************************)
get_movie(movie_id) == IF movie_id \in DOMAIN movies THEN Some(movies[movie_id]) ELSE None

get_actor(actor_id) == IF actor_id \in DOMAIN actors THEN Some(actors[actor_id]) ELSE None

get_director(director_id) ==
  IF director_id \in DOMAIN directors THEN Some(directors[director_id]) ELSE None

get_genre(genre_id) == IF genre_id \in DOMAIN genres THEN Some(genres[genre_id]) ELSE None

get_review(review_id) == IF review_id \in DOMAIN reviews THEN Some(reviews[review_id]) ELSE None

(***************************************************************************)
(* Queries.  A joined query returns one row per matching combination of    *)
(* joined rows, so the sequence may hold an id more than once.             *)
(***************************************************************************)
\* Query(le=1000) on every limit parameter of the API
MaxLimit == 1000

RECURSIVE Copies(_, _)
\* x, n times
Copies(x, n) == IF n = 0 THEN <<>> ELSE <<x>> \o Copies(x, n - 1)

RECURSIVE Expand(_, _)
\* the ids of seq, each as many times as mult gives it
Expand(seq, mult) ==
  IF seq = <<>> THEN <<>>
  ELSE Copies(Head(seq), mult[Head(seq)]) \o Expand(Tail(seq), mult)

RECURSIVE Distinct(_)
\* SELECT DISTINCT: each row once
Distinct(seq) ==
  IF seq = <<>> THEN <<>>
  ELSE LET d == Distinct(SubSeq(seq, 1, Len(seq) - 1))
           x == seq[Len(seq)]
       IN IF x \in Range(d) THEN d ELSE Append(d, x)

\* db.query(T).offset(skip).limit(limit).all()
get_movies(skip, limit) == Page(SortedSeq(DOMAIN movies), skip, limit)

get_actors(skip, limit) == Page(SortedSeq(DOMAIN actors), skip, limit)

get_directors(skip, limit) == Page(SortedSeq(DOMAIN directors), skip, limit)

get_genres(skip, limit) == Page(SortedSeq(DOMAIN genres), skip, limit)

get_movie_reviews(movie_id, skip, limit) ==
  Page(SortedSeq({r \in DOMAIN reviews : reviews[r].movie_id = movie_id}), skip, limit)

\* a join whose filter keeps every genre row of a movie that has the genre
GenreJoin_unfiltered(m, genre_id) == IF genre_id \in GenresOf(m) THEN GenresOf(m) ELSE {}

\* .join(Movie.genres).filter(Genre.id == genre_id): the genre rows joined
\* to movie m that pass the filter
GenreJoin(m, genre_id) == {g \in GenresOf(m) : g = genre_id}

\* .join(Movie.actors).filter(Actor.id == actor_id)
ActorJoin(m, actor_id) == {a \in ActorsOf(m) : a = actor_id}

\* the number of rows of the filter query that carry movie m; a criterion
\* takes part only when its value is truthy
FilterRows(m, genre_id, director_id, release_year, actor_id) ==
  LET ng == IF Truthy(genre_id) THEN Cardinality(GenreJoin(m, genre_id[1])) ELSE 1
      nd == IF Truthy(director_id)
            THEN IF movies[m].director_id = director_id THEN 1 ELSE 0
            ELSE 1
      ny == IF Truthy(release_year)
            THEN IF movies[m].release_year = release_year[1] THEN 1 ELSE 0
            ELSE 1
      na == IF Truthy(actor_id) THEN Cardinality(ActorJoin(m, actor_id[1])) ELSE 1
  IN ng * nd * ny * na

filter_movies(genre_id, director_id, release_year, actor_id, skip, limit) ==
  Page(Expand(SortedSeq(DOMAIN movies),
              [m \in DOMAIN movies |->
                 FilterRows(m, genre_id, director_id, release_year, actor_id)]),
       skip, limit)

\* Actor JOIN movie_actors JOIN movies JOIN movie_genres JOIN genres WHERE
\* genres.id = genre_id: one row per movie of the genre the actor is in
ActorGenreRows(genre_id) ==
  Expand(SortedSeq(DOMAIN actors),
         [a \in DOMAIN actors |->
            Cardinality({m \in MoviesOfActor(a) : genre_id \in GenresOf(m)})])

\* the joined rows without .distinct()
ActorGenreDistinct_missing(genre_id) == ActorGenreRows(genre_id)

\* .distinct() on the joined rows
ActorGenreDistinct(genre_id) == Distinct(ActorGenreRows(genre_id))

filter_actors_by_genre(genre_id, skip, limit) ==
  Page(ActorGenreDistinct(genre_id), skip, limit)

(***************************************************************************)
(* Search: column.ilike("%term%") is lower(column) LIKE lower('%term%'),   *)
(* where in the pattern % stands for any run of characters and _ for any   *)
(* one character; no escape character is declared.                         *)
(***************************************************************************)
\* lower() on one character
LowerChar(c) == IF c = "A" THEN "a" ELSE IF c = "B" THEN "b" ELSE c

Lower(str) == [i \in 1 .. Len(str) |-> LowerChar(str[i])]

RECURSIVE Like(_, _)
\* str LIKE pat
Like(str, pat) ==
  IF pat = <<>> THEN str = <<>>
  ELSE IF Head(pat) = "%"
       THEN Like(str, Tail(pat)) \/ (str # <<>> /\ Like(Tail(str), pat))
       ELSE /\ str # <<>>
            /\ Head(pat) = "_" \/ Head(pat) = Head(str)
            /\ Like(Tail(str), Tail(pat))

\* column.ilike(f"%{search_term}%") on a non-NULL column value
ILikeContains(str, search_term) ==
  Like(Lower(str), Lower(<<"%">> \o search_term \o <<"%">>))

\* the same on a nullable column: NULL matches nothing
ILikeContainsOpt(opt, search_term) == opt # None /\ ILikeContains(opt[1], search_term)

search_actors(search_term, skip, limit) ==
  Page(SortedSeq({a \in DOMAIN actors : ILikeContains(actors[a].name, search_term)}),
       skip, limit)

search_directors(search_term, skip, limit) ==
  Page(SortedSeq({d \in DOMAIN directors : ILikeContains(directors[d].name, search_term)}),
       skip, limit)

search_movies(search_term, skip, limit) ==
  Page(SortedSeq({m \in DOMAIN movies :
                    \/ ILikeContains(movies[m].title, search_term)
                    \/ ILikeContainsOpt(movies[m].description, search_term)}),
       skip, limit)

\* the requests the server handles, possibly at once
Requests == 1 .. MaxRequests

(***************************************************************************)
(* The state after Base.metadata.create_all on an empty database.          *)
(***************************************************************************)
Init ==
  /\ movies = <<>>
  /\ actors = <<>>
  /\ directors = <<>>
  /\ genres = <<>>
  /\ reviews = <<>>
  /\ movie_genres = {}
  /\ movie_actors = {}
  /\ last = Called("init", "none", 0, TRUE, None, NoRows)
  /\ ops = 0
  /\ pc = [r \in Requests |-> "idle"]
  /\ exit = [r \in Requests |-> "none"]
  /\ session = [r \in Requests |-> 0]
  /\ opened = {}
  /\ pending = None

\* one more repository call, while the run is within its bounds
Call == ops < MaxOps /\ ops' = ops + 1 /\ UNCHANGED <<requests, pending>>

(***************************************************************************)
(* ActorCRUD                                                               *)
(***************************************************************************)
create_actor(actor) ==
  LET id == NextId(actors) IN
  /\ Call
  /\ id <= MaxId
  /\ actors' = With(actors, id, actor)
  /\ last' = Called("create", "actor", id, TRUE, actor, NoRows)
  /\ UNCHANGED <<movies, directors, genres, reviews, movie_genres, movie_actors>>

\* a sparse patch: only the fields the caller gave a value are overwritten
update_actor_sparse(actor_id, actor) ==
  /\ Call
  /\ IF actor_id \in DOMAIN actors
     THEN /\ actors' = [actors EXCEPT ![actor_id] =
                          [f \in DOMAIN actor |->
                             IF actor[f] = None THEN actors[actor_id][f] ELSE actor[f]]]
          /\ last' = Called("update", "actor", actor_id, TRUE, actor, NoRows)
     ELSE /\ UNCHANGED actors
          /\ last' = Called("update", "actor", actor_id, FALSE, actor, NoRows)
  /\ UNCHANGED <<movies, directors, genres, reviews, movie_genres, movie_actors>>

update_actor(actor_id, actor) ==
  /\ Call
  /\ IF actor_id \in DOMAIN actors
     THEN /\ actors' = [actors EXCEPT ![actor_id] = actor]
          /\ last' = Called("update", "actor", actor_id, TRUE, actor, NoRows)
     ELSE /\ UNCHANGED actors
          /\ last' = Called("update", "actor", actor_id, FALSE, actor, NoRows)
  /\ UNCHANGED <<movies, directors, genres, reviews, movie_genres, movie_actors>>

delete_actor(actor_id) ==
  /\ Call
  /\ IF actor_id \in DOMAIN actors
     THEN /\ actors' = Without(actors, actor_id)
          \* the rows of the secondary table for the loaded Actor.movies go too
          /\ movie_actors' = movie_actors \ {<<m, actor_id>> : m \in MoviesOfActor(actor_id)}
          /\ last' = Called("delete", "actor", actor_id, TRUE, None, NoRows)
     ELSE /\ UNCHANGED <<actors, movie_actors>>
          /\ last' = Called("delete", "actor", actor_id, FALSE, None, NoRows)
  /\ UNCHANGED <<movies, directors, genres, reviews, movie_genres>>

(***************************************************************************)
(* DirectorCRUD                                                            *)
(***************************************************************************)
create_director(director) ==
  LET id == NextId(directors) IN
  /\ Call
  /\ id <= MaxId
  /\ directors' = With(directors, id, director)
  /\ last' = Called("create", "director", id, TRUE, director, NoRows)
  /\ UNCHANGED <<movies, actors, genres, reviews, movie_genres, movie_actors>>

update_director(director_id, director) ==
  /\ Call
  /\ IF director_id \in DOMAIN directors
     THEN /\ directors' = [directors EXCEPT ![director_id] = director]
          /\ last' = Called("update", "director", director_id, TRUE, director, NoRows)
     ELSE /\ UNCHANGED directors
          /\ last' = Called("update", "director", director_id, FALSE, director, NoRows)
  /\ UNCHANGED <<movies, actors, genres, reviews, movie_genres, movie_actors>>

\* a delete that cascades from the director to the movies and their rows
delete_director_cascade(director_id) ==
  /\ Call
  /\ IF director_id \in DOMAIN directors
     THEN /\ directors' = Without(directors, director_id)
          /\ movies' = [m \in (DOMAIN movies) \ MoviesOfDirector(director_id) |-> movies[m]]
          /\ movie_genres' = {r \in movie_genres : r[1] \notin MoviesOfDirector(director_id)}
          /\ movie_actors' = {r \in movie_actors : r[1] \notin MoviesOfDirector(director_id)}
          /\ last' = Called("delete", "director", director_id, TRUE, None, NoRows)
     ELSE /\ UNCHANGED <<directors, movies, movie_genres, movie_actors>>
          /\ last' = Called("delete", "director", director_id, FALSE, None, NoRows)
  /\ UNCHANGED <<actors, genres, reviews>>

delete_director(director_id) ==
  /\ Call
  /\ IF director_id \in DOMAIN directors
     THEN /\ directors' = Without(directors, director_id)
          \* Director.movies has no delete cascade: the ORM nulls the
          \* director_id of the loaded movies
          /\ movies' = [m \in DOMAIN movies |->
                          IF m \in MoviesOfDirector(director_id)
                          THEN [movies[m] EXCEPT !.director_id = None]
                          ELSE movies[m]]
          /\ last' = Called("delete", "director", director_id, TRUE, None, NoRows)
     ELSE /\ UNCHANGED <<directors, movies>>
          /\ last' = Called("delete", "director", director_id, FALSE, None, NoRows)
  /\ UNCHANGED <<actors, genres, reviews, movie_genres, movie_actors>>

(***************************************************************************)
(* GenreCRUD                                                               *)
(***************************************************************************)
\* a create_genre whose failed INSERT is not rolled back
create_genre_kept(genre) ==
  LET id == NextId(genres) IN
  /\ Call
  /\ id <= MaxId
  /\ genres' = With(genres, id, genre)
  /\ last' = Called("create", "genre", IF UniqueViolation(genres, id, genre.name) THEN 0 ELSE id,
                    ~UniqueViolation(genres, id, genre.name), genre, NoRows)
  /\ UNCHANGED <<movies, actors, directors, reviews, movie_genres, movie_actors>>

create_genre(genre) ==
  LET id == NextId(genres) IN
  /\ Call
  /\ id <= MaxId
  /\ IF UniqueViolation(genres, id, genre.name)
     THEN \* db.commit() raises; the INSERT is rolled back
          /\ UNCHANGED genres
          /\ last' = Called("create", "genre", 0, FALSE, genre, NoRows)
     ELSE /\ genres' = With(genres, id, genre)
          /\ last' = Called("create", "genre", id, TRUE, genre, NoRows)
  /\ UNCHANGED <<movies, actors, directors, reviews, movie_genres, movie_actors>>

update_genre(genre_id, genre) ==
  /\ Call
  /\ IF genre_id \in DOMAIN genres /\ ~UniqueViolation(genres, genre_id, genre.name)
     THEN /\ genres' = [genres EXCEPT ![genre_id] = genre]
          /\ last' = Called("update", "genre", genre_id, TRUE, genre, NoRows)
     ELSE \* no such row (returns None), or db.commit() raises and the
          \* UPDATE is rolled back
          /\ UNCHANGED genres
          /\ last' = Called("update", "genre", genre_id, FALSE, genre, NoRows)
  /\ UNCHANGED <<movies, actors, directors, reviews, movie_genres, movie_actors>>

delete_genre(genre_id) ==
  /\ Call
  /\ IF genre_id \in DOMAIN genres
     THEN /\ genres' = Without(genres, genre_id)
          /\ movie_genres' = movie_genres \ {<<m, genre_id>> : m \in MoviesOfGenre(genre_id)}
          /\ last' = Called("delete", "genre", genre_id, TRUE, None, NoRows)
     ELSE /\ UNCHANGED <<genres, movie_genres>>
          /\ last' = Called("delete", "genre", genre_id, FALSE, None, NoRows)
  /\ UNCHANGED <<movies, actors, directors, reviews, movie_actors>>

(***************************************************************************)
(* ReviewCRUD                                                              *)
(***************************************************************************)
\* the Review row of a ReviewCreate: created_at is not in the schema
ReviewRow(review) ==
  [movie_id |-> review.movie_id, reviewer_name |-> review.reviewer_name,
   rating |-> review.rating, comment |-> review.comment, created_at |-> None]

create_review(review) ==
  LET id == NextId(reviews) IN
  /\ Call
  /\ id <= MaxId
  /\ reviews' = With(reviews, id, ReviewRow(review))
  /\ last' = Called("create", "review", id, TRUE, review, NoRows)
  /\ UNCHANGED <<movies, actors, directors, genres, movie_genres, movie_actors>>

delete_review(review_id) ==
  /\ Call
  /\ IF review_id \in DOMAIN reviews
     THEN /\ reviews' = Without(reviews, review_id)
          /\ last' = Called("delete", "review", review_id, TRUE, None, NoRows)
     ELSE /\ UNCHANGED reviews
          /\ last' = Called("delete", "review", review_id, FALSE, None, NoRows)
  /\ UNCHANGED <<movies, actors, directors, genres, movie_genres, movie_actors>>

(***************************************************************************)
(* MovieCRUD                                                               *)
(***************************************************************************)
\* schemas.MovieCreate
MovieCreate ==
  {[scalars |-> sc, director_id |-> d, genre_ids |-> gs, actor_ids |-> as] :
     sc \in MovieScalars, d \in OptInputIds, gs \in IdLists, as \in IdLists}
    \cup {[scalars |-> OverratedScalars, director_id |-> None, genre_ids |-> <<>>,
           actor_ids |-> <<>>]}
    \cup {[scalars |-> OverratedScalars, director_id |-> None, genre_ids |-> RepeatedIds,
           actor_ids |-> RepeatedIds]}

\* schemas.MovieUpdate: data holds the scalar fields the payload sets (each
\* Optional, so None is an explicit null); genre_ids and actor_ids are None
\* when absent or null
ScalarPatches ==
  { <<>>,
    [title |-> None],
    [title |-> Some(NameAb), rating |-> None],
    [release_year |-> Some(1), director_id |-> Some(1)] }

OptIdLists == {None} \cup {Some(l) : l \in {<<>>, <<1, MaxId>>}}

MovieUpdate ==
  {[data |-> d, genre_ids |-> None, actor_ids |-> None] : d \in ScalarPatches}
    \cup {[data |-> <<>>, genre_ids |-> gs, actor_ids |-> as] : gs \in OptIdLists, as \in OptIdLists}
    \cup {[data |-> <<>>, genre_ids |-> Some(RepeatedIds), actor_ids |-> Some(RepeatedIds)]}

\* a genre list attached as named, without the query that resolves it
GenresIn_unresolved(ids) == Range(ids)

\* db.query(Genre).filter(Genre.id.in_(ids)).all(), as a set of ids
GenresIn(ids) == Range(ids) \cap DOMAIN genres

\* an actor list attached as named, without the query that resolves it
ActorsIn_unresolved(ids) == Range(ids)

\* db.query(Actor).filter(Actor.id.in_(ids)).all(), as a set of ids
ActorsIn(ids) == Range(ids) \cap DOMAIN actors

RECURSIVE Lookups(_, _)
\* one lookup per id of the list, in the order of the list: a row named
\* twice is returned twice
Lookups(ids, found) ==
  IF ids = <<>> THEN <<>>
  ELSE (IF Head(ids) \in found THEN <<Head(ids)>> ELSE <<>>) \o Lookups(Tail(ids), found)

\* the rows of an IN query, each row of the table once
InQuery(ids, found) == SortedSeq(found)

\* the list assigned to db_movie.genres
GenreList(ids) == InQuery(ids, GenresIn(ids))

\* the list assigned to db_movie.actors
ActorList(ids) == InQuery(ids, ActorsIn(ids))

\* both columns of an association table are its primary key: the INSERT of
\* the rows of a collection that holds an entity twice violates it
PairViolation(list) == \E i, j \in 1 .. Len(list) : i # j /\ list[i] = list[j]

\* a constructor call that keeps director_id only when a director has it
MovieRow_checked(movie) ==
  [title |-> movie.scalars.title,
   release_year |-> movie.scalars.release_year,
   description |-> movie.scalars.description,
   poster_url |-> movie.scalars.poster_url,
   rating |-> IF movie.scalars.rating = None THEN Some(RatingDefault) ELSE movie.scalars.rating,
   runtime_minutes |-> movie.scalars.runtime_minutes,
   director_id |-> IF movie.director_id # None /\ movie.director_id[1] \in DOMAIN directors
                   THEN movie.director_id ELSE None]

\* a constructor call that forgets director_id
MovieRow_nodirector(movie) ==
  [title |-> movie.scalars.title,
   release_year |-> movie.scalars.release_year,
   description |-> movie.scalars.description,
   poster_url |-> movie.scalars.poster_url,
   rating |-> IF movie.scalars.rating = None THEN Some(RatingDefault) ELSE movie.scalars.rating,
   runtime_minutes |-> movie.scalars.runtime_minutes,
   director_id |-> None]

\* the Movie row of a MovieCreate; a None rating is left out of the INSERT
\* and the column default fills it
MovieRow(movie) ==
  [title |-> movie.scalars.title,
   release_year |-> movie.scalars.release_year,
   description |-> movie.scalars.description,
   poster_url |-> movie.scalars.poster_url,
   rating |-> IF movie.scalars.rating = None THEN Some(RatingDefault) ELSE movie.scalars.rating,
   runtime_minutes |-> movie.scalars.runtime_minutes,
   director_id |-> movie.director_id]

create_movie(movie) ==
  LET id == NextId(movies)
      gs == IF movie.genre_ids # <<>> THEN GenreList(movie.genre_ids) ELSE <<>>
      as == IF movie.actor_ids # <<>> THEN ActorList(movie.actor_ids) ELSE <<>>
  IN
  /\ Call
  /\ id <= MaxId
  /\ IF PairViolation(gs) \/ PairViolation(as)
     THEN \* db.commit() raises; nothing is written
          /\ UNCHANGED <<movies, movie_genres, movie_actors>>
          /\ last' = Called("create", "movie", 0, FALSE, movie, NoRows)
     ELSE /\ movies' = With(movies, id, MovieRow(movie))
          /\ movie_genres' = movie_genres \cup {<<id, g>> : g \in Range(gs)}
          /\ movie_actors' = movie_actors \cup {<<id, a>> : a \in Range(as)}
          /\ last' = Called("create", "movie", id, TRUE, movie, NoRows)
  /\ UNCHANGED <<actors, directors, genres, reviews>>

\* columns of Movie declared nullable=False
NotNullFields == {"title", "release_year"}

\* a full replacement: a field the payload leaves out is overwritten with
\* null (a NOT NULL column keeps its value)
Patched_full(row, data) ==
  [f \in DOMAIN row |->
     IF f \in DOMAIN data
     THEN IF f \in NotNullFields /\ data[f] # None THEN data[f][1] ELSE data[f]
     ELSE IF f \in NotNullFields THEN row[f] ELSE None]

\* setattr(db_movie, field, value) for each field of update_data
Patched(row, data) ==
  [f \in DOMAIN row |->
     IF f \in DOMAIN data
     THEN IF f \in NotNullFields /\ data[f] # None THEN data[f][1] ELSE data[f]
     ELSE row[f]]

update_movie(movie_id, movie) ==
  /\ Call
  /\ IF movie_id \notin DOMAIN movies
     THEN /\ UNCHANGED <<movies, movie_genres, movie_actors>>
          /\ last' = Called("update", "movie", movie_id, FALSE, movie, NoRows)
     ELSE IF \/ \E f \in NotNullFields \cap DOMAIN movie.data : movie.data[f] = None
             \/ movie.genre_ids # None /\ PairViolation(GenreList(movie.genre_ids[1]))
             \/ movie.actor_ids # None /\ PairViolation(ActorList(movie.actor_ids[1]))
     THEN \* NOT NULL or primary key constraint: db.commit() raises, nothing
          \* is written
          /\ UNCHANGED <<movies, movie_genres, movie_actors>>
          /\ last' = Called("update", "movie", movie_id, FALSE, movie, NoRows)
     ELSE /\ movies' = [movies EXCEPT ![movie_id] = Patched(movies[movie_id], movie.data)]
          /\ movie_genres' =
               IF movie.genre_ids # None
               THEN (movie_genres \ {<<movie_id, g>> : g \in GenresOf(movie_id)})
                      \cup {<<movie_id, g>> : g \in Range(GenreList(movie.genre_ids[1]))}
               ELSE movie_genres
          /\ movie_actors' =
               IF movie.actor_ids # None
               THEN (movie_actors \ {<<movie_id, a>> : a \in ActorsOf(movie_id)})
                      \cup {<<movie_id, a>> : a \in Range(ActorList(movie.actor_ids[1]))}
               ELSE movie_actors
          /\ last' = Called("update", "movie", movie_id, TRUE, movie, NoRows)
  /\ UNCHANGED <<actors, directors, genres, reviews>>

\* the rows db.delete(db_movie) removes besides the movie's own: the reviews
\* (cascade="all, delete-orphan") and the rows of both secondary tables
delete_movie(movie_id) ==
  /\ Call
  /\ IF movie_id \in DOMAIN movies
     THEN /\ movies' = Without(movies, movie_id)
          /\ reviews' = [r \in (DOMAIN reviews) \ CascadedReviews(movie_id) |-> reviews[r]]
          /\ movie_genres' = movie_genres \ {<<movie_id, g>> : g \in GenresOf(movie_id)}
          /\ movie_actors' = movie_actors \ {<<movie_id, a>> : a \in ActorsOf(movie_id)}
          /\ last' = Called("delete", "movie", movie_id, TRUE, None,
                           [reviews |-> ReviewsOf(movie_id), genres |-> GenresOf(movie_id),
                            actors |-> ActorsOf(movie_id)])
     ELSE /\ UNCHANGED <<movies, reviews, movie_genres, movie_actors>>
          /\ last' = Called("delete", "movie", movie_id, FALSE, None, NoRows)
  /\ UNCHANGED <<actors, directors, genres>>

Next ==
  \/ \E a \in ActorCreate : create_actor(a)
  \/ \E i \in InputIds, a \in ActorCreate : update_actor(i, a)
  \/ \E i \in InputIds : delete_actor(i)
  \/ \E d \in DirectorCreate : create_director(d)
  \/ \E i \in InputIds, d \in DirectorCreate : update_director(i, d)
  \/ \E i \in InputIds : delete_director(i)
  \/ \E g \in GenreCreate : create_genre(g)
  \/ \E i \in InputIds, g \in GenreCreate : update_genre(i, g)
  \/ \E i \in InputIds : delete_genre(i)
  \/ \E r \in ReviewCreate : create_review(r)
  \/ \E i \in InputIds : delete_review(i)
  \/ \E m \in MovieCreate : create_movie(m)
  \/ \E i \in InputIds, m \in MovieUpdate : update_movie(i, m)
  \/ \E i \in InputIds : delete_movie(i)

Spec == Init /\ [][Next]_vars

(***************************************************************************)
(* Properties.                                                             *)
(***************************************************************************)
\* get(id) of the entity type named kind
Get(kind, id) ==
  CASE kind = "movie" -> get_movie(id)
    [] kind = "actor" -> get_actor(id)
    [] kind = "director" -> get_director(id)
    [] kind = "genre" -> get_genre(id)
    [] kind = "review" -> get_review(id)
    [] OTHER -> None

\* C1: for every entity type, once delete(id) has run, whether it found a
\* row or not, a get(id) issued next returns not-found.
C1_DeleteThenGetNotFound ==
  last.op = "delete" => Get(last.kind, last.id) = None

\* C1 witness: a delete that found and removed a row has just run.
C1_RowDeleted == last.op = "delete" /\ last.ok /\ last.kind \in {"actor", "director", "genre", "review"}

\* C2: after delete_movie(m) returned true, no review has movie_id = m,
\* list_for_movie(m) is empty, every review the movie had is not found, no
\* association row names m, and no filter by genre returns m.
C2_MovieDeleteCascades ==
  (last.op = "delete" /\ last.kind = "movie" /\ last.ok) =>
    /\ \A r \in DOMAIN reviews : reviews[r].movie_id # last.id
    /\ get_movie_reviews(last.id, 0, MaxLimit) = <<>>
    /\ \A r \in last.gone.reviews : get_review(r) = None
    /\ \A row \in movie_genres \cup movie_actors : row[1] # last.id
    /\ \A g \in 0 .. MaxId :
         last.id \notin Range(filter_movies(Some(g), None, None, None, 0, MaxLimit))

\* C2 witness: the movie just deleted had a review and a genre.
C2_DeletedMovieHadReviewAndGenre ==
  /\ last.op = "delete" /\ last.kind = "movie" /\ last.ok
  /\ last.gone.reviews # {}
  /\ last.gone.genres # {}

\* the scalar fields of a MovieCreate as get returns them when each is
\* stored as supplied
ScalarsStored(row, movie) ==
  /\ row.title = movie.scalars.title
  /\ row.release_year = movie.scalars.release_year
  /\ row.description = movie.scalars.description
  /\ row.poster_url = movie.scalars.poster_url
  /\ row.runtime_minutes = movie.scalars.runtime_minutes
  /\ row.director_id = movie.director_id

\* create then get for the entity types other than Movie: every supplied
\* field is returned as supplied
CreatedAsSupplied ==
  /\ last.kind \in {"actor", "director", "genre"} => Get(last.kind, last.id) = Some(last.arg)
  /\ last.kind = "review" =>
       /\ get_review(last.id) # None
       /\ \A f \in DOMAIN last.arg : get_review(last.id)[1][f] = last.arg[f]

C4_ReviewsNameExistingMovie ==
  /\ \A r \in DOMAIN reviews : reviews[r].movie_id \in DOMAIN movies
  /\ (last.op = "create" /\ last.kind = "review" /\ last.ok) =>
       last.arg.movie_id \in DOMAIN movies

\* C5: no two genre rows have the same name, and a create_genre or
\* update_genre that succeeded did not give its genre the name of another.
C5_GenreNamesUnique ==
  /\ \A g1, g2 \in DOMAIN genres : genres[g1].name = genres[g2].name => g1 = g2
  /\ (last.kind = "genre" /\ last.op \in {"create", "update"} /\ last.ok) =>
       \A g \in (DOMAIN genres) \ {last.id} : genres[g].name # last.arg.name

\* C5 witness: a create_genre or update_genre naming another genre's name
\* has just been refused.
C5_DuplicateNameRefused ==
  /\ last.kind = "genre" /\ last.op \in {"create", "update"} /\ ~last.ok
  /\ \E g \in (DOMAIN genres) \ {last.id} : genres[g].name = last.arg.name

\* values a caller may pass for a filter criterion: omitted, 0, or an id
\* (for release_year: a year) that rows of the store carry
Criteria == {None} \cup {Some(v) : v \in 0 .. MaxId}

NoDuplicates(seq) == \A i, j \in 1 .. Len(seq) : seq[i] = seq[j] => i = j

\* the movies filter returns, for skip = 0 and a limit no page cuts
Filtered(genre_id, director_id, release_year, actor_id) ==
  Range(filter_movies(genre_id, director_id, release_year, actor_id, 0, MaxLimit))

\* movie m satisfies every criterion that is supplied (not None)
Satisfies(m, genre_id, director_id, release_year, actor_id) ==
  /\ genre_id # None => <<m, genre_id[1]>> \in movie_genres
  /\ director_id # None => movies[m].director_id = director_id
  /\ release_year # None => movies[m].release_year = release_year[1]
  /\ actor_id # None => <<m, actor_id[1]>> \in movie_actors

\* C6: with skip = 0 and no page cut, filter(genre_id = g) returns only
\* movies whose genre set contains g, and a filter with two or more criteria
\* returns the intersection of the single-criterion results, which is the
\* set of movies that satisfy every supplied criterion.
C6_FilterIsIntersection ==
  /\ \A g \in 0 .. MaxId :
       \A m \in Filtered(Some(g), None, None, None) : <<m, g>> \in movie_genres
  /\ \A g, d, y, a \in Criteria :
       Cardinality({c \in {<<1, g>>, <<2, d>>, <<3, y>>, <<4, a>>} : c[2] # None}) >= 2 =>
         /\ Filtered(g, d, y, a) =
              Filtered(g, None, None, None) \cap Filtered(None, d, None, None)
                \cap Filtered(None, None, y, None) \cap Filtered(None, None, None, a)
         /\ Filtered(g, d, y, a) = {m \in DOMAIN movies : Satisfies(m, g, d, y, a)}

\* C6 for truthy values: when every supplied criterion is a non-zero
\* integer, a filter by genre returns only movies of the genre and a filter
\* with two or more criteria returns the movies that satisfy all of them.
C6_FilterOfTruthyIsIntersection ==
  /\ \A g \in 1 .. MaxId :
       \A m \in Filtered(Some(g), None, None, None) : <<m, g>> \in movie_genres
  /\ \A g, d, a \in OptInputIds, y \in {None, Some(1)} :
       Filtered(g, d, y, a) = {m \in DOMAIN movies : Satisfies(m, g, d, y, a)}

\* C7: each criterion restricts the result whenever a value is supplied for
\* it, whatever the integer, and only an omitted criterion does not; with no
\* criterion, filter returns what list returns.
C7_EachCriterionRestricts ==
  /\ filter_movies(None, None, None, None, 0, MaxLimit) = get_movies(0, MaxLimit)
  /\ \A v \in 0 .. MaxId :
       /\ Filtered(Some(v), None, None, None) =
            {m \in DOMAIN movies : Satisfies(m, Some(v), None, None, None)}
       /\ Filtered(None, Some(v), None, None) =
            {m \in DOMAIN movies : Satisfies(m, None, Some(v), None, None)}
       /\ Filtered(None, None, Some(v), None) =
            {m \in DOMAIN movies : Satisfies(m, None, None, Some(v), None)}
       /\ Filtered(None, None, None, Some(v)) =
            {m \in DOMAIN movies : Satisfies(m, None, None, None, Some(v))}

\* C8: for every combination of criteria, genre_id and actor_id together
\* included, the sequence filter returns holds no movie twice.
C8_FilterReturnsEachMovieOnce ==
  \A g, a \in OptInputIds, d, y \in {None, Some(1)} :
    NoDuplicates(filter_movies(g, d, y, a, 0, MaxLimit))

\* C8 witness: a movie with two genres and an actor is what a filter on one
\* of its genres and on its actor returns.
C8_JoinedMovieReturned ==
  \E m \in DOMAIN movies : \E g \in GenresOf(m), a \in ActorsOf(m) :
    /\ Cardinality(GenresOf(m)) >= 2
    /\ filter_movies(Some(g), None, None, Some(a), 0, MaxLimit) = <<m>>

\* C9: filter_by_genre(g) returns exactly the actors that are in at least
\* one movie tagged with genre g, each of them once.
C9_ActorsByGenreExactOnce ==
  \A g \in 0 .. MaxId :
    LET result == filter_actors_by_genre(g, 0, MaxLimit) IN
    /\ NoDuplicates(result)
    /\ Range(result) =
         {a \in DOMAIN actors :
            \E m \in DOMAIN movies :
              /\ g \in DOMAIN genres
              /\ <<m, a>> \in movie_actors
              /\ <<m, g>> \in movie_genres}

\* C9 witness: an actor is in two movies of one genre, and filter_by_genre
\* of that genre returns the actor.
C9_ActorInTwoMoviesOfGenre ==
  \E a \in DOMAIN actors, g \in DOMAIN genres :
    /\ Cardinality({m \in DOMAIN movies : <<m, a>> \in movie_actors /\ <<m, g>> \in movie_genres}) >= 2
    /\ filter_actors_by_genre(g, 0, MaxLimit) = <<a>>

\* characters of a search term: letters in both cases and the two LIKE
\* wildcards
Alphabet == {"a", "A", "b", "B", "_", "%"}

\* longest search term tried
MaxTermLen == 2

\* the non-empty search terms
Terms == UNION {[1 .. n -> Alphabet] : n \in 1 .. MaxTermLen}

\* term occurs in str as a literal substring, letter case ignored
Contains(str, term) ==
  \E i \in 0 .. (Len(str) - Len(term)) :
    \A j \in 1 .. Len(term) : LowerChar(str[i + j]) = LowerChar(term[j])

\* C10: search(term) returns exactly the entities whose display field
\* contains term as a literal substring ignoring case (the name of an actor
\* or director; the title or the description of a movie), each once, and so
\* nothing when nothing matches.
C10_SearchIsLiteralSubstring ==
  \A term \in Terms :
    /\ NoDuplicates(search_actors(term, 0, MaxLimit))
    /\ Range(search_actors(term, 0, MaxLimit)) =
         {a \in DOMAIN actors : Contains(actors[a].name, term)}
    /\ NoDuplicates(search_directors(term, 0, MaxLimit))
    /\ Range(search_directors(term, 0, MaxLimit)) =
         {d \in DOMAIN directors : Contains(directors[d].name, term)}
    /\ NoDuplicates(search_movies(term, 0, MaxLimit))
    /\ Range(search_movies(term, 0, MaxLimit)) =
         {m \in DOMAIN movies :
            \/ Contains(movies[m].title, term)
            \/ movies[m].description # None /\ Contains(movies[m].description[1], term)}

\* C10 without the wildcards: for a term of letters only, search returns
\* exactly the entities whose display field contains the term ignoring case.
C10_SearchOfLettersIsSubstring ==
  \A term \in Terms :
    Range(term) \cap {"_", "%"} = {} =>
      /\ Range(search_actors(term, 0, MaxLimit)) =
           {a \in DOMAIN actors : Contains(actors[a].name, term)}
      /\ Range(search_directors(term, 0, MaxLimit)) =
           {d \in DOMAIN directors : Contains(directors[d].name, term)}
      /\ Range(search_movies(term, 0, MaxLimit)) =
           {m \in DOMAIN movies :
              \/ Contains(movies[m].title, term)
              \/ movies[m].description # None /\ Contains(movies[m].description[1], term)}

(***************************************************************************)
(* The routing layer: the status of the response to the request that made  *)
(* the repository call.                                                    *)
(***************************************************************************)
NotFound == 404

\* the status of a request that pydantic refuses before the handler runs
Unprocessable == 422

\* the entity types whose router the application includes; a request to a
\* path of no router is answered 404
Mounted == {"movie", "actor", "director", "genre"}

\* a handler that reports every call as a success
Status_ok(call) == 200

\* the routes raise HTTPException(404) when update returns None or delete
\* returns False (the call failed and no row has the id); create returns
\* what the repository returns; an exception of db.commit() is not handled
\* and becomes a 500
Status(call) ==
  IF call.kind \notin Mounted THEN NotFound
  ELSE IF call.ok THEN 200
  ELSE IF call.op \in {"update", "delete"} /\ Get(call.kind, call.id) = None THEN NotFound
  ELSE 500

\* the get routes raise HTTPException(404) when the lookup returns None
GetStatus(kind, id) ==
  IF kind \notin Mounted \/ Get(kind, id) = None THEN NotFound ELSE 200

\* the association rows of movie m, as the ids they name
GenreRows(m) == {row[2] : row \in {r \in movie_genres : r[1] = m}}

ActorRows(m) == {row[2] : row \in {r \in movie_actors : r[1] = m}}

\* C11: create_movie succeeds whatever ids genre_ids and actor_ids hold, and
\* the association rows of the new movie name exactly the supplied ids that
\* exist in the store: no row is written for an id that resolves to nothing.
C11_CreateAttachesResolvedIds ==
  (last.op = "create" /\ last.kind = "movie") =>
    /\ last.ok
    /\ get_movie(last.id) # None
    /\ GenreRows(last.id) = {g \in Range(last.arg.genre_ids) : get_genre(g) # None}
    /\ ActorRows(last.id) = {a \in Range(last.arg.actor_ids) : get_actor(a) # None}

\* C11 witness: a movie was just created from a genre list that names one
\* genre of the store and one id that no genre has.
C11_CreatedWithUnresolvedGenre ==
  /\ last.op = "create" /\ last.kind = "movie" /\ last.ok
  /\ \E g \in Range(last.arg.genre_ids) : get_genre(g) # None
  /\ \E g \in Range(last.arg.genre_ids) : get_genre(g) = None

\* the create_movie call just made names a director_id no director has
DanglingDirectorCreate ==
  /\ last.op = "create" /\ last.kind = "movie"
  /\ last.arg.director_id # None
  /\ get_director(last.arg.director_id[1]) = None

C13_DanglingDirectorRejected ==
  DanglingDirectorCreate =>
    /\ Status(last) = NotFound
    /\ get_movie(last.id) = None

\* the scalar columns of Movie that MovieUpdate can set
ScalarFields ==
  {"title", "release_year", "description", "poster_url", "rating",
   "runtime_minutes", "director_id"}

\* the value of column f that a payload's value v stands for: the payload
\* holds every field as an optional, the NOT NULL columns hold the value
Supplied(f, v) == IF f \in NotNullFields THEN v[1] ELSE v

\* this step is update_movie on a movie of the store
UpdatesMovie ==
  /\ last'.op = "update" /\ last'.kind = "movie"
  /\ get_movie(last'.id) # None

GenreRowsAfter(m) == {row[2] : row \in {r \in movie_genres' : r[1] = m}}

ActorRowsAfter(m) == {row[2] : row \in {r \in movie_actors' : r[1] = m}}

\* C15: after update_movie on an existing movie returned, the movie's genre
\* rows name exactly the existing genres among the supplied genre_ids when
\* genre_ids is present (an empty list included), and are unchanged when it
\* is absent; the same for actor_ids; so replacing one set leaves the other.
C15_UpdateReplacesNamedSets ==
  [][(UpdatesMovie /\ last'.ok) =>
       LET m == last'.id
           arg == last'.arg
       IN /\ GenreRowsAfter(m) = (IF arg.genre_ids # None
                              THEN {g \in Range(arg.genre_ids[1]) : get_genre(g) # None}
                              ELSE GenreRows(m))
          /\ ActorRowsAfter(m) = (IF arg.actor_ids # None
                              THEN {a \in Range(arg.actor_ids[1]) : get_actor(a) # None}
                              ELSE ActorRows(m))
          /\ \A o \in (DOMAIN movies) \ {m} :
               GenreRowsAfter(o) = GenreRows(o) /\ ActorRowsAfter(o) = ActorRows(o)]_vars

\* C15 witness: update_movie has just replaced the genres of a movie by a
\* list naming one genre of the store and one unknown id, with actor_ids
\* absent, and the movie has the one genre and still has an actor.
C15_GenresReplacedActorsKept ==
  /\ last.op = "update" /\ last.kind = "movie" /\ last.ok
  /\ last.arg.genre_ids = Some(<<1, MaxId>>)
  /\ last.arg.actor_ids = None
  /\ get_genre(MaxId) = None
  /\ GenreRows(last.id) = {1}
  /\ ActorRows(last.id) # {}

\* this step is update on a row of table, the table of the entity type
\* kind, and tableAfter is the table after it: the row holds every field of
\* the payload as the caller gave it (a field the caller omitted is None in
\* the payload) when update returned the entity, and is as it was when the
\* commit failed; the row keeps its id, and no other row, no movie, no
\* review and no association row changes
FullUpdate(kind, table, tableAfter) ==
  (last'.op = "update" /\ last'.kind = kind /\ last'.id \in DOMAIN table) =>
    /\ DOMAIN tableAfter = DOMAIN table
    /\ tableAfter[last'.id] = (IF last'.ok THEN last'.arg ELSE table[last'.id])
    /\ \A o \in (DOMAIN table) \ {last'.id} : tableAfter[o] = table[o]
    /\ UNCHANGED <<movies, reviews, movie_genres, movie_actors>>

Kinds == {"movie", "actor", "director", "genre", "review"}

\* the ids of the rows of the entity type kind
Ids(kind) ==
  CASE kind = "movie" -> DOMAIN movies
    [] kind = "actor" -> DOMAIN actors
    [] kind = "director" -> DOMAIN directors
    [] kind = "genre" -> DOMAIN genres
    [] kind = "review" -> DOMAIN reviews

\* C17: for every entity type, get of an id that no row has returns None
\* and is answered 404; update and delete of such an id return the
\* not-found sentinel, are answered 404 and leave the store unchanged.
C17_MissingIdIsNotFound ==
  /\ [](\A kind \in Kinds, id \in 0 .. MaxId + 1 :
          id \notin Ids(kind) =>
            Get(kind, id) = None /\ GetStatus(kind, id) = NotFound)
  /\ [][(last'.op \in {"update", "delete"} /\ last'.id \notin Ids(last'.kind)) =>
          /\ ~last'.ok
          /\ Status(last') = NotFound
          /\ UNCHANGED tables]_vars

\* C17 witness: update_movie has just been called with an id that no movie
\* has, on a store that holds a movie, and was answered 404.
C17_UpdateOfMissingMovie ==
  /\ last.op = "update" /\ last.kind = "movie"
  /\ get_movie(last.id) = None
  /\ movies # <<>>
  /\ ~last.ok
  /\ Status(last) = NotFound

\* C18: a delete of an actor, a genre or a director deletes no movie and no
\* review; every movie keeps its scalar fields, except that the director_id
\* of a movie that referenced the deleted director is kept or nulled; and
\* the association rows removed are exactly those that name the deleted
\* actor or genre.
C18_DeleteKeepsMovies ==
  [][(last'.op = "delete" /\ last'.kind \in {"actor", "genre", "director"}) =>
       /\ DOMAIN movies' = DOMAIN movies
       /\ reviews' = reviews
       /\ \A m \in DOMAIN movies :
            /\ get_movie(m)' # None
            /\ \A f \in ScalarFields \ {"director_id"} : movies'[m][f] = movies[m][f]
            /\ IF last'.kind = "director" /\ movies[m].director_id = Some(last'.id)
               THEN movies'[m].director_id \in {None, Some(last'.id)}
               ELSE movies'[m].director_id = movies[m].director_id
       /\ movie_genres' = (IF last'.kind = "genre"
                           THEN {r \in movie_genres : r[2] # last'.id}
                           ELSE movie_genres)
       /\ movie_actors' = (IF last'.kind = "actor"
                           THEN {r \in movie_actors : r[2] # last'.id}
                           ELSE movie_actors)]_vars

\* C18 witness: a director has just been deleted from a store that holds a
\* movie with a genre and no director.
C18_DirectorDeletedMovieKept ==
  /\ last.op = "delete" /\ last.kind = "director" /\ last.ok
  /\ \E m \in DOMAIN movies : movies[m].director_id = None /\ GenreRows(m) # {}

\* C19: in every state, list_for_movie(movie_id) is empty when no movie has
\* the id or the movie has no reviews, and otherwise holds exactly the
\* reviews whose movie_id is the argument, each once.
C19_ListForMovie ==
  \A movie_id \in 0 .. MaxId + 1 :
    LET result == get_movie_reviews(movie_id, 0, MaxLimit) IN
    IF get_movie(movie_id) = None \/ ReviewsOf(movie_id) = {}
    THEN result = <<>>
    ELSE NoDuplicates(result) /\ Range(result) = ReviewsOf(movie_id)

\* C20: the entity create has just returned has no relationship the call
\* did not supply: a new actor, director or genre has no movies, and a new
\* movie has no reviews.
C20_CreatedWithoutRelationships ==
  (last.op = "create" /\ last.ok) =>
    /\ last.kind = "actor" => MoviesOfActor(last.id) = {}
    /\ last.kind = "director" => MoviesOfDirector(last.id) = {}
    /\ last.kind = "genre" => MoviesOfGenre(last.id) = {}
    /\ last.kind = "movie" => ReviewsOf(last.id) = {}

\* the entity types that have a list operation
Listed == {"movie", "actor", "director", "genre"}

\* list(skip, limit) of the entity type kind
List(kind, skip, limit) ==
  CASE kind = "movie" -> get_movies(skip, limit)
    [] kind = "actor" -> get_actors(skip, limit)
    [] kind = "director" -> get_directors(skip, limit)
    [] kind = "genre" -> get_genres(skip, limit)

\* the ids of the rows of the entity type kind after the step
IdsAfter(kind) ==
  CASE kind = "movie" -> DOMAIN movies'
    [] kind = "actor" -> DOMAIN actors'
    [] kind = "director" -> DOMAIN directors'
    [] kind = "genre" -> DOMAIN genres'
    [] kind = "review" -> DOMAIN reviews'

\* page sizes tried: one row, every row of a full table, the largest limit
Limits == {1, MaxId, MaxLimit}

C22_RatingOutOfRangeRejected ==
  /\ (/\ last.op = "create" /\ last.kind = "movie"
      /\ last.arg.scalars.rating # None
      /\ last.arg.scalars.rating[1] \notin RatingMin .. RatingMax) =>
       /\ Status(last) = Unprocessable
       /\ get_movie(last.id) = None
  /\ \A m \in DOMAIN movies :
       movies[m].rating # None => movies[m].rating[1] \in RatingMin .. RatingMax

(***************************************************************************)
(* The paginated GET routes.                                               *)
(***************************************************************************)
\* a route that declares no bound on skip and limit
ValidPage_any(skip, limit) == TRUE

\* skip: Query(0, ge=0) and limit: Query(100, ge=1, le=1000)
ValidPage(skip, limit) == skip >= 0 /\ limit >= 1 /\ limit <= MaxLimit

\* the response of a paginated route of the router of kind: 404 when the
\* router is not included, 422 when skip or limit is out of bounds, and
\* otherwise the rows of the repository call the handler makes
Paginated(kind, skip, limit, rows) ==
  IF kind \notin Mounted
  THEN [status |-> NotFound, called |-> FALSE, rows |-> <<>>]
  ELSE IF ~ValidPage(skip, limit)
  THEN [status |-> Unprocessable, called |-> FALSE, rows |-> <<>>]
  ELSE [status |-> 200, called |-> TRUE, rows |-> rows]

\* GET /api/<kind>s/
list_route(kind, skip, limit) == Paginated(kind, skip, limit, List(kind, skip, limit))

\* GET /api/movies/filter
filter_movies_route(genre_id, director_id, release_year, actor_id, skip, limit) ==
  Paginated("movie", skip, limit,
            filter_movies(genre_id, director_id, release_year, actor_id, skip, limit))

\* GET /api/<kind>s/search
search_route(kind, q, skip, limit) ==
  Paginated(kind, skip, limit,
            CASE kind = "movie" -> search_movies(q, skip, limit)
              [] kind = "actor" -> search_actors(q, skip, limit)
              [] kind = "director" -> search_directors(q, skip, limit))

\* GET /api/actors/by-genre/{genre_id}
actors_by_genre_route(genre_id, skip, limit) ==
  Paginated("actor", skip, limit, filter_actors_by_genre(genre_id, skip, limit))

\* GET /api/reviews/movie/{movie_id}
movie_reviews_route(movie_id, skip, limit) ==
  Paginated("review", skip, limit, get_movie_reviews(movie_id, skip, limit))

\* the responses to one request of every paginated route with this skip
\* and limit
PageResponses(skip, limit) ==
  {list_route(kind, skip, limit) : kind \in Listed}
    \cup {search_route(kind, NameB, skip, limit) : kind \in {"movie", "actor", "director"}}
    \cup {filter_movies_route(None, None, None, None, skip, limit)}
    \cup {actors_by_genre_route(g, skip, limit) : g \in InputIds}
    \cup {movie_reviews_route(m, skip, limit) : m \in InputIds}

\* values of skip and limit around the bounds
Skips == {-1, 0, 1}

PageLimits == {-1, 0, 1, MaxLimit, MaxLimit + 1}

\* C23: every paginated request that reaches the repository has skip >= 0
\* and 1 <= limit <= 1000, and a request with skip or limit outside these
\* bounds is refused and returns no rows.
C23_PageBoundsEnforced ==
  \A skip \in Skips, limit \in PageLimits :
    \A response \in PageResponses(skip, limit) :
      IF skip >= 0 /\ 1 <= limit /\ limit <= 1000
      THEN response.status \in {200, NotFound}
      ELSE /\ ~response.called
           /\ response.status \in {Unprocessable, NotFound}
           /\ response.rows = <<>>

\* C23 witness: with two movies stored, the list of movies with limit 1000
\* returns both and the one with limit 1001 is refused with 422.
C23_LimitAboveBoundRefused ==
  /\ list_route("movie", 0, MaxLimit) = [status |-> 200, called |-> TRUE, rows |-> <<1, MaxId>>]
  /\ list_route("movie", 0, MaxLimit + 1).status = Unprocessable
  /\ list_route("movie", -1, 1).status = Unprocessable

\* the create_movie or update_movie call just made names an id twice in
\* genre_ids and in actor_ids
RepeatedIdCall ==
  /\ last.kind = "movie"
  /\ \/ /\ last.op = "create"
        /\ last.arg.genre_ids = RepeatedIds
        /\ last.arg.actor_ids = RepeatedIds
     \/ /\ last.op = "update"
        /\ get_movie(last.id) # None
        /\ last.arg.genre_ids # None /\ last.arg.genre_ids[1] = RepeatedIds
        /\ last.arg.actor_ids # None /\ last.arg.actor_ids[1] = RepeatedIds

\* C24: create_movie or update_movie called with an id twice in genre_ids
\* and in actor_ids succeeds, and the movie is associated with the genre
\* and the actor of that id when they exist (an association table is a set
\* of pairs, so once).
C24_RepeatedIdAttachedOnce ==
  RepeatedIdCall =>
    /\ last.ok
    /\ GenreRows(last.id) = {g \in Range(RepeatedIds) : get_genre(g) # None}
    /\ ActorRows(last.id) = {a \in Range(RepeatedIds) : get_actor(a) # None}

\* C24 witness: a call naming id 1 twice in both lists has just returned,
\* and the movie has genre 1 and actor 1.
C24_RepeatedIdAttached ==
  /\ RepeatedIdCall
  /\ last.ok
  /\ GenreRows(last.id) = {1}
  /\ ActorRows(last.id) = {1}

\* C25: a request that creates a review for an existing movie is answered
\* 200 with the review and its generated id, and in every state the list
\* of reviews of a movie requested through the API is answered 200 and
\* holds every stored review of that movie.
C25_ReviewsExposed ==
  /\ (last.op = "create" /\ last.kind = "review" /\ get_movie(last.arg.movie_id) # None) =>
       /\ Status(last) = 200
       /\ get_review(last.id) # None
  /\ \A m \in DOMAIN movies :
       LET response == movie_reviews_route(m, 0, MaxLimit) IN
       /\ response.status = 200
       /\ Range(response.rows) = ReviewsOf(m)

(***************************************************************************)
(* The session of a request: the dependency get_db.  The repository calls  *)
(* a handler makes are those of Spec; here only the exit path matters.     *)
(***************************************************************************)
\* how a request leaves its handler: it returns, it raises HTTPException
\* (not found), its parameters are refused (422), or the repository raises
ExitPaths == {"success", "not_found", "validation", "fault"}

\* db = SessionLocal(); yield db
get_db_open(r) ==
  /\ pc[r] = "idle"
  /\ LET db == SetMax({session[q] : q \in Requests}) + 1 IN
       /\ session' = [session EXCEPT ![r] = db]
       /\ opened' = opened \cup {db}
  /\ pc' = [pc EXCEPT ![r] = "yielded"]
  /\ UNCHANGED <<tables, last, ops, pending, exit>>

\* the request leaves the handler on one of the exit paths
handler_exit(r, path) ==
  /\ pc[r] = "yielded"
  /\ pc' = [pc EXCEPT ![r] = "exited"]
  /\ exit' = [exit EXCEPT ![r] = path]
  /\ UNCHANGED <<tables, last, ops, pending, session, opened>>

\* a close written after the yield without try/finally: an exception skips it
get_db_close_unguarded(r) ==
  /\ pc[r] = "exited"
  /\ opened' = (IF exit[r] = "success" THEN opened \ {session[r]} ELSE opened)
  /\ pc' = [pc EXCEPT ![r] = "done"]
  /\ UNCHANGED <<tables, last, ops, pending, exit, session>>

\* finally: db.close()
get_db_close(r) ==
  /\ pc[r] = "exited"
  /\ opened' = opened \ {session[r]}
  /\ pc' = [pc EXCEPT ![r] = "done"]
  /\ UNCHANGED <<tables, last, ops, pending, exit, session>>

RequestNext ==
  \/ \E r \in Requests : get_db_open(r)
  \/ \E r \in Requests, path \in ExitPaths : handler_exit(r, path)
  \/ \E r \in Requests : get_db_close(r)

\* a handler runs to its return or to an exception, and the generator of
\* the dependency is then resumed
RequestFairness ==
  \A r \in Requests :
    /\ WF_vars(\E path \in ExitPaths : handler_exit(r, path))
    /\ WF_vars(get_db_close(r))

RequestSpec == Init /\ [][RequestNext]_vars /\ RequestFairness

\* C26: a request that has started has one session, which no other request
\* has; the sessions open are those of the requests under way; and on every
\* exit path of a request its session is eventually closed.
C26_SessionPerRequestClosed ==
  /\ [](\A r \in Requests :
          /\ pc[r] # "idle" => session[r] # 0
          /\ \A q \in Requests \ {r} : session[r] # 0 => session[q] # session[r]
          /\ session[r] \in opened <=> pc[r] \notin {"idle", "done"})
  /\ \A r \in Requests, path \in ExitPaths :
       (pc[r] = "exited" /\ exit[r] = path) ~> (pc[r] = "done" /\ session[r] \notin opened)

\* C26 witness: one request has left its handler with a fault of the
\* repository and its session is closed, while another request still has
\* its own session open.
C26_FaultedRequestClosed ==
  /\ pc[1] = "done" /\ exit[1] = "fault" /\ session[1] # 0 /\ session[1] \notin opened
  /\ pc[2] = "yielded" /\ session[2] \in opened

\* C28: after any sequence of repository calls made one at a time, every
\* movie-genre row names a movie and a genre of the store, and every
\* movie-actor row names a movie and an actor of the store.
C28_AssociationRowsResolve ==
  /\ \A row \in movie_genres : get_movie(row[1]) # None /\ get_genre(row[2]) # None
  /\ \A row \in movie_actors : get_movie(row[1]) # None /\ get_actor(row[2]) # None

\* C28 witness: one of the two genres has just been deleted, and a movie
\* has the other genre and no row for the deleted one.
C28_GenreOfMovieDeleted ==
  /\ last.op = "delete" /\ last.kind = "genre" /\ last.ok
  /\ \E m \in DOMAIN movies :
       /\ GenreRows(m) = {1, MaxId} \ {last.id}
       /\ movie_actors = {}

(***************************************************************************)
(* create_movie and update_movie beside other requests.  The queries that  *)
(* resolve genre_ids and actor_ids run first and hold no lock afterwards   *)
(* (pysqlite begins a transaction at the first INSERT, UPDATE or DELETE);  *)
(* nothing is flushed before db.commit() (autoflush=False), which writes   *)
(* the movie row and the association rows in one transaction.  Between the *)
(* two, the requests of other sessions run: here those that create or      *)
(* delete a genre or an actor.                                             *)
(***************************************************************************)
\* create_movie up to db.add(db_movie)
create_movie_resolve(movie) ==
  /\ pending = None
  /\ ops < MaxOps /\ ops' = ops + 1
  /\ NextId(movies) <= MaxId
  /\ pending' = Some([op |-> "create", id |-> 0, arg |-> movie,
                      genres |-> IF movie.genre_ids # <<>>
                                 THEN GenreList(movie.genre_ids) ELSE <<>>,
                      actors |-> IF movie.actor_ids # <<>>
                                 THEN ActorList(movie.actor_ids) ELSE <<>>,
                      had |-> [genres |-> {}, actors |-> {}]])
  /\ UNCHANGED <<tables, last, requests>>

\* update_movie of a movie of the store up to the assignment of the
\* collections; had is what the collections held when they were assigned
update_movie_resolve(movie_id, movie) ==
  /\ pending = None
  /\ ops < MaxOps /\ ops' = ops + 1
  /\ movie_id \in DOMAIN movies
  /\ pending' = Some([op |-> "update", id |-> movie_id, arg |-> movie,
                      genres |-> IF movie.genre_ids # None
                                 THEN GenreList(movie.genre_ids[1])
                                 ELSE SortedSeq(GenresOf(movie_id)),
                      actors |-> IF movie.actor_ids # None
                                 THEN ActorList(movie.actor_ids[1])
                                 ELSE SortedSeq(ActorsOf(movie_id)),
                      had |-> [genres |-> GenresOf(movie_id), actors |-> ActorsOf(movie_id)]])
  /\ UNCHANGED <<tables, last, requests>>

\* the commit raises: nothing is written
commit_fails(p) ==
  /\ UNCHANGED <<movies, movie_genres, movie_actors>>
  /\ last' = Called(p.op, "movie", p.id, FALSE, p.arg, NoRows)

\* the flush of a new movie: the row and the rows of its collections
commit_create(p) ==
  LET id == NextId(movies) IN
  IF PairViolation(p.genres) \/ PairViolation(p.actors)
  THEN commit_fails(p)
  ELSE /\ movies' = With(movies, id, MovieRow(p.arg))
       /\ movie_genres' = movie_genres \cup {<<id, g>> : g \in Range(p.genres)}
       /\ movie_actors' = movie_actors \cup {<<id, a>> : a \in Range(p.actors)}
       /\ last' = Called("create", "movie", id, TRUE, p.arg, NoRows)

\* an association row the flush is to delete is no longer there
Stale(p) ==
  \/ \E g \in p.had.genres \ Range(p.genres) : <<p.id, g>> \notin movie_genres
  \/ \E a \in p.had.actors \ Range(p.actors) : <<p.id, a>> \notin movie_actors

\* the flush of a changed movie: the UPDATE of the row, and for each
\* collection the DELETE of the rows it lost and the INSERT of those it
\* gained since it was assigned
commit_update(p) ==
  IF \/ \E f \in NotNullFields \cap DOMAIN p.arg.data : p.arg.data[f] = None
     \/ PairViolation(p.genres) \/ PairViolation(p.actors)
  THEN commit_fails(p)
  ELSE \/ /\ movies' = [movies EXCEPT ![p.id] = Patched(movies[p.id], p.arg.data)]
          /\ movie_genres' =
               (movie_genres \ {<<p.id, g>> : g \in p.had.genres \ Range(p.genres)})
                 \cup {<<p.id, g>> : g \in Range(p.genres) \ p.had.genres}
          /\ movie_actors' =
               (movie_actors \ {<<p.id, a>> : a \in p.had.actors \ Range(p.actors)})
                 \cup {<<p.id, a>> : a \in Range(p.actors) \ p.had.actors}
          /\ last' = Called("update", "movie", p.id, TRUE, p.arg, NoRows)
       \/ \* the DELETE matches fewer rows than expected: StaleDataError,
          \* where the driver reports the row count
          /\ Stale(p)
          /\ commit_fails(p)

\* a commit that makes the movie row visible before its association rows
movie_commit_rowfirst ==
  /\ pending # None
  /\ pending[1].op = "create"
  /\ movies' = With(movies, NextId(movies), MovieRow(pending[1].arg))
  /\ last' = Called("create", "movie", NextId(movies), TRUE, pending[1].arg, NoRows)
  /\ pending' = None
  /\ UNCHANGED <<actors, directors, genres, reviews, movie_genres, movie_actors, ops, requests>>

\* db.commit() of the call in flight
movie_commit ==
  /\ pending # None
  /\ IF pending[1].op = "create" THEN commit_create(pending[1]) ELSE commit_update(pending[1])
  /\ pending' = None
  /\ UNCHANGED <<actors, directors, genres, reviews, ops, requests>>

ConcurrentNext ==
  \/ \E m \in MovieCreate : create_movie_resolve(m)
  \/ \E i \in InputIds, m \in MovieUpdate : update_movie_resolve(i, m)
  \/ movie_commit
  \/ \E g \in GenreCreate : create_genre(g)
  \/ \E i \in InputIds : delete_genre(i)
  \/ \E a \in ActorCreate : create_actor(a)
  \/ \E i \in InputIds : delete_actor(i)

ConcurrentSpec == Init /\ [][ConcurrentNext]_vars

\* C27: create_movie and update_movie write in one transaction: a step that
\* makes a new movie row visible makes the association rows of the resolved
\* genres and actors visible with it; the commit of an update either patches
\* the row and applies the whole change of each assigned collection, or, when
\* it raises, changes neither the row nor any association row; a commit of a
\* create that raises leaves no row behind.
C27_MovieWrittenInOneTransaction ==
  [][ /\ \A m \in DOMAIN movies' \ DOMAIN movies :
           /\ pending # None
           /\ GenreRowsAfter(m) = Range(pending[1].genres)
           /\ ActorRowsAfter(m) = Range(pending[1].actors)
      /\ (pending # None /\ pending' = None) =>
           LET p == pending[1] IN
           IF ~last'.ok
           THEN UNCHANGED tables
           ELSE IF p.op = "create"
           THEN DOMAIN movies' \ DOMAIN movies = {last'.id}
           ELSE /\ movies'[p.id] = Patched(movies[p.id], p.arg.data)
                /\ GenreRowsAfter(p.id) =
                     (GenreRows(p.id) \ (p.had.genres \ Range(p.genres)))
                       \cup (Range(p.genres) \ p.had.genres)
                /\ ActorRowsAfter(p.id) =
                     (ActorRows(p.id) \ (p.had.actors \ Range(p.actors)))
                       \cup (Range(p.actors) \ p.had.actors)
    ]_vars

\* a movie was committed with a genre and an actor while no call is in flight
C27_MovieCommittedWithBothSets ==
  /\ pending = None
  /\ last.op = "create" /\ last.kind = "movie" /\ last.ok
  /\ last.id \in DOMAIN movies
  /\ GenreRows(last.id) # {}
  /\ ActorRows(last.id) # {}
  /\ ops = 3

\* C29: a delete_genre or delete_actor that commits between the id
\* resolution and the commit of a create_movie or update_movie leaves no
\* association row that names the deleted genre or actor.
C29_NoRowNamesDeletedRow ==
  /\ \A row \in movie_genres : row[2] \in DOMAIN genres
  /\ \A row \in movie_actors : row[2] \in DOMAIN actors

\* the call names a genre name that another row of the store carries
DuplicateName(call) ==
  /\ call.kind = "genre"
  /\ \/ call.op = "create"
     \/ call.op = "update" /\ call.id \in DOMAIN genres
  /\ \E g \in (DOMAIN genres) \ {call.id} : genres[g].name = call.arg.name

\* C30: a create_genre or update_genre whose name duplicates another genre's
\* name fails, the caller is answered with an error (the exception of the
\* commit is not swallowed: a 500, never a 200), and the step leaves every
\* table as it was: no genre row added, no field of a genre changed, and the
\* next id to be given out is the same, so later requests find the store of
\* before the call.
C30_DuplicateNameLeavesStore ==
  [][ (ops' = ops + 1 /\ DuplicateName(last')) =>
        /\ ~last'.ok
        /\ Status(last') = 500
        /\ UNCHANGED tables
        /\ NextId(genres') = NextId(genres)
    ]_vars

\* an update_genre to the name of another genre has failed and the row kept
\* its own name
C30_RenameToTakenNameFailed ==
  /\ last.kind = "genre" /\ last.op = "update" /\ ~last.ok
  /\ last.id \in DOMAIN genres
  /\ genres[last.id].name # last.arg.name
  /\ \E g \in (DOMAIN genres) \ {last.id} : genres[g].name = last.arg.name
  /\ Status(last) = 500

====
